---- MODULE Spec2Model ----
(***************************************************************************)
(* Model of the retrieval pipeline of yongal2rag (src/rag_engine.py):      *)
(* RAGEngine.add_document, delete_document, get_all_documents and query,   *)
(* running against a vector index (Qdrant), an embedder and a language     *)
(* model, each of which may raise on any call.                             *)
(*                                                                         *)
(* Scores are integers in units of 1e-5 (0.2 is 20000); hit_info scores    *)
(* are in units of 1e-4 after round(score, 4).                             *)
(* The scroll limit of 10000 is scaled down together with the document     *)
(* sizes: what the code's behaviour depends on is whether more points      *)
(* match a scan than the limit lets it return.                             *)
(*                                                                         *)
(* Spec is the engine called by one caller at a time; SpecServer is the    *)
(* request handlers of src/main.py, two of them at a time, obtaining the   *)
(* engine through get_rag() and calling it on the event loop.              *)
(***************************************************************************)
EXTENDS Integers, Sequences, FiniteSets, TLC

\* atCall is the index as the call in progress found it
VARIABLES index, now, op, ret, calls, path, atCall

\* The request handlers of src/main.py: task is the state of each handler,
\* rag_engine and rag_engine_instance are the two module globals that hold the
\* engine, loop is the handler running on the event loop, and constructed
\* counts the engines RAGEngine() has built
VARIABLES task, rag_engine, rag_engine_instance, loop, constructed

server == <<task, rag_engine, rag_engine_instance, loop, constructed>>

vars == <<index, now, op, ret, calls, path, atCall, server>>

-----------------------------------------------------------------------------
(* Bounds of the model *)

\* a document has at most MaxChunks chunks
MaxChunks == 3
\* the clock stops at MaxClock
MaxClock == 1

FileNames == {"a.txt", "b.txt"}
Texts == {"t1", "t2"}
Questions == {"q1", "q2"}

\* the request handlers that run concurrently
Handlers == {"h1", "h2"}

(* Program constants *)

\* search_results[0].score < 0.2 (line 188), in units of 1e-5
ModeThreshold == 20000
\* result.score >= 0.2 (line 206), in units of 1e-5
HitThreshold == 20000
\* top_k: int = 5 (line 144)
DefaultTopK == 5
\* limit=10000 of the scan of delete_document (line 106), scaled with
\* MaxChunks: a document can have more points than one scan returns
DeleteScrollLimit == 2
\* limit=10000 of the scan of get_all_documents (line 124), scaled likewise
ListScrollLimit == 2

-----------------------------------------------------------------------------
(* Hashing: hashlib.md5(...).hexdigest(), a fixed collision-free scramble  *)
(* of the encoded string on the strings the model builds.                  *)

encode == ("a.txt" :> 1) @@ ("b.txt" :> 2)

Md5(x) == (37 * x + 11) % 1009

\* f"{doc_id}_{idx}"
DocIdx(doc_id, idx) == doc_id * 10 + idx

DocId(file_name) == Md5(encode[file_name])

\* variant: the point id also depends on the time of the upload
PointIdTimed(doc_id, idx) == Md5(DocIdx(doc_id, idx) + now)

PointId(doc_id, idx) == Md5(DocIdx(doc_id, idx))

UnknownDocId == Md5(0)

DocIds == {DocId(f) : f \in FileNames} \cup {UnknownDocId}

-----------------------------------------------------------------------------
(* The chunker, the embedder, the language model and the clock *)

\* the uploaded documents: one of each length 0..MaxChunks, neighbouring
\* chunks differing, so that documents of different lengths differ in text
Document(n) == [i \in 1..n |-> IF (n - i) % 2 = 0 THEN "t2" ELSE "t1"]

Contents == {Document(n) : n \in 0..MaxChunks}

\* variant: the splitter loses the last chunk
split_textSkipLast(content) == [i \in 1..(Len(content) - 1) |-> content[i]]

\* RecursiveCharacterTextSplitter.split_text: a document is given as the
\* sequence of chunks the splitter cuts it into (none for empty content)
split_text(content) == [i \in 1..Len(content) |-> content[i]]

\* HuggingFaceEmbeddings.embed_query: deterministic, one vector per text
embed_query(text) == [of |-> text]

\* cosine similarity of a question vector and a chunk vector, in 1e-5
Cosine(qv, pv) ==
    CASE qv.of = "q1" /\ pv.of = "t1" -> 73126
      [] qv.of = "q1" /\ pv.of = "t2" -> 19999
      [] qv.of = "q2" /\ pv.of = "t2" -> 20000
      [] OTHER -> 0 - 12345

\* round(score, 4): 1e-5 units to 1e-4 units, ties to even
Round4(s) ==
    LET q == s \div 10
        r == s % 10
    IN  IF r > 5 \/ (r = 5 /\ q % 2 = 1) THEN q + 1 ELSE q

\* HumanMessage(content=question) and the template of lines 217-224
BarePrompt(question) == [template |-> FALSE, context |-> <<>>, question |-> question]

RagPrompt(context_chunks, question) ==
    [template |-> TRUE, context |-> context_chunks, question |-> question]

\* response.content of self.llm.invoke([message])
Content(prompt) == [reply_to |-> prompt]

Apology == "sorry"

-----------------------------------------------------------------------------
(* The vector index: point id -> [vector, payload] *)

NoFilter == 0 - 1

Min(a, b) == IF a < b THEN a ELSE b

RECURSIVE SortedIds(_)
SortedIds(S) ==
    IF S = {} THEN <<>>
    ELSE LET m == CHOOSE x \in S : \A y \in S : x <= y
         IN  <<m>> \o SortedIds(S \ {m})

\* variant: the filter is not applied
scrollUnfiltered(ix, doc_filter, limit) ==
    LET s == SortedIds(DOMAIN ix)
    IN  [i \in 1..Min(limit, Len(s)) |-> [id |-> s[i], payload |-> ix[s[i]].payload]]

\* qdrant_client.scroll(scroll_filter, limit): the first `limit` matching
\* points in id order
scroll(ix, doc_filter, limit) ==
    LET ids == {id \in DOMAIN ix :
                  doc_filter = NoFilter \/ ix[id].payload.doc_id = doc_filter}
        s == SortedIds(ids)
    IN  [i \in 1..Min(limit, Len(s)) |-> [id |-> s[i], payload |-> ix[s[i]].payload]]

\* qdrant_client.upsert(points): insert or overwrite by id
upsert(ix, points) ==
    LET new == {points[i].id : i \in 1..Len(points)}
        At(id) == CHOOSE i \in 1..Len(points) :
                     /\ points[i].id = id
                     /\ \A j \in 1..Len(points) : points[j].id = id => j <= i
    IN  [id \in DOMAIN ix \cup new |->
            IF id \in new
            THEN [vector |-> points[At(id)].vector, payload |-> points[At(id)].payload]
            ELSE ix[id]]

\* qdrant_client.delete(points_selector=point_ids)
delete(ix, point_ids) ==
    LET gone == {point_ids[i] : i \in 1..Len(point_ids)}
    IN  [id \in DOMAIN ix \ gone |-> ix[id]]

\* collection_info.points_count
points_count(ix) == Cardinality(DOMAIN ix)

\* the points of S, best score first, equal scores in id order
RECURSIVE Ranked(_, _)
Ranked(score, S) ==
    IF S = {} THEN <<>>
    ELSE LET best == CHOOSE x \in S : \A y \in S :
                        \/ score[x] > score[y]
                        \/ score[x] = score[y] /\ x <= y
         IN  <<best>> \o Ranked(score, S \ {best})

\* qdrant_client.query_points(query, limit).points: the `limit` nearest
\* points by cosine similarity, best score first
query_points(ix, qv, limit) ==
    LET score == [id \in DOMAIN ix |-> Cosine(qv, ix[id].vector)]
        order == Ranked(score, DOMAIN ix)
    IN  [i \in 1..Min(limit, Len(order)) |->
            [id |-> order[i], score |-> score[order[i]], payload |-> ix[order[i]].payload]]

-----------------------------------------------------------------------------
(* RAGEngine.add_document *)

\* variant: every chunk is written as soon as it is embedded
AddBodyPerChunk(ix, clock, file_name, content, embedFailAt, upsertFails) ==
    LET doc_id == DocId(file_name)
        chunks == split_text(content)
        n      == Len(chunks)
        done   == IF embedFailAt \in 1..n THEN embedFailAt - 1 ELSE n
        points == [i \in 1..n |->
                     [id      |-> PointId(doc_id, i - 1),
                      vector  |-> embed_query(chunks[i]),
                      payload |-> [doc_id      |-> doc_id,
                                   file_name   |-> file_name,
                                   chunk_index |-> i - 1,
                                   text        |-> chunks[i],
                                   uploaded_at |-> clock]]]
        embed(i, ok) == [fn |-> "embed_query", site |-> 76, arg |-> chunks[i], ok |-> ok]
        write(i, ok) == [fn |-> "upsert", site |-> 91, arg |-> <<points[i]>>, ok |-> ok]
        made   == [j \in 1..(2 * done) |->
                     IF j % 2 = 1 THEN embed((j + 1) \div 2, TRUE) ELSE write(j \div 2, TRUE)]
    IN  IF embedFailAt \in 1..n
        THEN [raised |-> TRUE, e |-> "embed_query",
              index |-> upsert(ix, SubSeq(points, 1, done)),
              calls |-> Append(made, embed(embedFailAt, FALSE))]
        ELSE IF upsertFails /\ n >= 1
        THEN [raised |-> TRUE, e |-> "upsert", index |-> ix,
              calls |-> <<embed(1, TRUE), write(1, FALSE)>>]
        ELSE [raised |-> FALSE, index |-> upsert(ix, points), calls |-> made,
              ret |-> [status |-> "success", doc_id |-> doc_id, chunks_count |-> n]]

\* embedFailAt = k in 1..n: the k-th embed_query call raises
AddBody(ix, clock, file_name, content, embedFailAt, upsertFails) ==
    LET doc_id == DocId(file_name)
        chunks == split_text(content)
        n      == Len(chunks)
        stop   == IF embedFailAt \in 1..n THEN embedFailAt ELSE n
        embeds == [i \in 1..stop |->
                     [fn |-> "embed_query", site |-> 76, arg |-> chunks[i],
                      ok |-> i # embedFailAt]]
        points == [i \in 1..n |->
                     [id      |-> PointId(doc_id, i - 1),
                      vector  |-> embed_query(chunks[i]),
                      payload |-> [doc_id      |-> doc_id,
                                   file_name   |-> file_name,
                                   chunk_index |-> i - 1,
                                   text        |-> chunks[i],
                                   uploaded_at |-> clock]]]
    IN  IF embedFailAt \in 1..n
        THEN [raised |-> TRUE, e |-> "embed_query", index |-> ix, calls |-> embeds]
        ELSE IF upsertFails
        THEN [raised |-> TRUE, e |-> "upsert", index |-> ix,
              calls |-> Append(embeds, [fn |-> "upsert", site |-> 91, arg |-> points, ok |-> FALSE])]
        ELSE [raised |-> FALSE, index |-> upsert(ix, points),
              calls |-> Append(embeds, [fn |-> "upsert", site |-> 91, arg |-> points, ok |-> TRUE]),
              ret |-> [status |-> "success", doc_id |-> doc_id, chunks_count |-> n]]

\* variant: no handler, the exception leaves add_document
AddExceptReraise(e) == [status |-> "raised", message |-> e]

\* except Exception as e: return {"status": "error", "message": str(e)}
AddExcept(e) == [status |-> "error", message |-> e]

add_document(ix, clock, file_name, content, embedFailAt, upsertFails) ==
    LET b == AddBody(ix, clock, file_name, content, embedFailAt, upsertFails)
    IN  IF b.raised
        THEN [index |-> b.index, calls |-> b.calls, ret |-> AddExcept(b.e), path |-> "except"]
        ELSE [index |-> b.index, calls |-> b.calls, ret |-> b.ret, path |-> "return"]

-----------------------------------------------------------------------------
(* RAGEngine.delete_document *)

DeleteBody(ix, doc_id, scrollFails, deleteFails) ==
    LET found     == scroll(ix, doc_id, DeleteScrollLimit)
        point_ids == [i \in 1..Len(found) |-> found[i].id]
        scan(ok)  == [fn |-> "scroll", site |-> 103, arg |-> doc_id, ok |-> ok]
        del(ok)   == [fn |-> "delete", site |-> 112, arg |-> point_ids, ok |-> ok]
    IN  IF scrollFails
        THEN [raised |-> TRUE, e |-> "scroll", index |-> ix, calls |-> <<scan(FALSE)>>]
        ELSE IF point_ids = <<>>
        THEN [raised |-> FALSE, index |-> ix, calls |-> <<scan(TRUE)>>,
              ret |-> [status |-> "success", deleted_points |-> 0]]
        ELSE IF deleteFails
        THEN [raised |-> TRUE, e |-> "delete", index |-> ix,
              calls |-> <<scan(TRUE), del(FALSE)>>]
        ELSE [raised |-> FALSE, index |-> delete(ix, point_ids),
              calls |-> <<scan(TRUE), del(TRUE)>>,
              ret |-> [status |-> "success", deleted_points |-> Len(point_ids)]]

\* except Exception as e: return {"status": "error", "message": str(e)}
DeleteExcept(e) == [status |-> "error", message |-> e]

delete_document(ix, doc_id, scrollFails, deleteFails) ==
    LET b == DeleteBody(ix, doc_id, scrollFails, deleteFails)
    IN  IF b.raised
        THEN [index |-> b.index, calls |-> b.calls, ret |-> DeleteExcept(b.e), path |-> "except"]
        ELSE [index |-> b.index, calls |-> b.calls, ret |-> b.ret, path |-> "return"]

-----------------------------------------------------------------------------
(* RAGEngine.get_all_documents *)

\* position of doc_id in the insertion-ordered docs_dict, 0 if absent
KeyPos(docs, doc_id) ==
    IF \E i \in 1..Len(docs) : docs[i].doc_id = doc_id
    THEN CHOOSE i \in 1..Len(docs) : docs[i].doc_id = doc_id
    ELSE 0

RECURSIVE GroupPoints(_, _)
GroupPoints(points, docs) ==
    IF points = <<>> THEN docs
    ELSE LET p == Head(points).payload
             k == KeyPos(docs, p.doc_id)
             entered == IF k = 0
                        THEN Append(docs, [doc_id       |-> p.doc_id,
                                           file_name    |-> p.file_name,
                                           chunks_count |-> 0,
                                           uploaded_at  |-> p.uploaded_at])
                        ELSE docs
             j == IF k = 0 THEN Len(entered) ELSE k
         IN  GroupPoints(Tail(points),
                 [entered EXCEPT ![j].chunks_count = entered[j].chunks_count + 1])

\* except Exception as e: return []
ListExcept(e) == <<>>

\* variant: the listing drops from the index the points its scan did not return
get_all_documentsCompacting(ix, scrollFails) ==
    LET scanned == scroll(ix, NoFilter, ListScrollLimit)
        seen    == {scanned[i].id : i \in 1..Len(scanned)}
    IN  IF scrollFails
        THEN [index |-> ix, ret |-> ListExcept("scroll"), path |-> "except",
              calls |-> <<[fn |-> "scroll", site |-> 124, arg |-> NoFilter, ok |-> FALSE]>>]
        ELSE [index |-> [id \in seen |-> ix[id]], path |-> "return",
              ret |-> GroupPoints(scanned, <<>>),
              calls |-> <<[fn |-> "scroll", site |-> 124, arg |-> NoFilter, ok |-> TRUE]>>]

get_all_documents(ix, scrollFails) ==
    IF scrollFails
    THEN [index |-> ix, ret |-> ListExcept("scroll"), path |-> "except",
          calls |-> <<[fn |-> "scroll", site |-> 124, arg |-> NoFilter, ok |-> FALSE]>>]
    ELSE [index |-> ix, path |-> "return",
          ret |-> GroupPoints(scroll(ix, NoFilter, ListScrollLimit), <<>>),
          calls |-> <<[fn |-> "scroll", site |-> 124, arg |-> NoFilter, ok |-> TRUE]>>]

-----------------------------------------------------------------------------
(* RAGEngine.query *)

QuerySteps == {"get_collection", "embed_query", "query_points", "llm", "fallback"}

TopKs == {1, DefaultTopK}

\* which external calls raise during one query: the primary path stops at the
\* first of its calls that raises, a failed collection check leads straight to
\* the language model, and the fallback call is made only after a raise
QueryFailures ==
    {fail \in SUBSET QuerySteps :
        /\ Cardinality(fail \cap {"embed_query", "query_points", "llm"}) <= 1
        /\ "get_collection" \in fail => fail \cap {"embed_query", "query_points"} = {}
        /\ "fallback" \in fail => "llm" \in fail \/ fail \cap {"embed_query", "query_points"} # {}}

\* self.llm.invoke([message]) at source line `site`
LlmCall(site, prompt, ok) == [fn |-> "llm", site |-> site, arg |-> prompt, ok |-> ok]

\* lines 160-169 and 190-199: the bare question, general mode
GeneralReply(question, before, fail, at, site) ==
    IF "llm" \in fail
    THEN [raised |-> TRUE, e |-> "llm",
          calls |-> Append(before, LlmCall(site, BarePrompt(question), FALSE))]
    ELSE [raised |-> FALSE, path |-> at,
          calls |-> Append(before, LlmCall(site, BarePrompt(question), TRUE)),
          ret |-> [status       |-> "success",
                   answer       |-> Content(BarePrompt(question)),
                   hit_info     |-> <<>>,
                   context_used |-> 0,
                   mode         |-> "general"]]

\* variant: every search result is kept, whatever its score
RECURSIVE HitsUnfiltered(_, _)
HitsUnfiltered(search_results, idx) ==
    IF idx > Len(search_results) THEN <<>>
    ELSE LET result == search_results[idx]
         IN  <<[rank        |-> idx,
                file_name   |-> result.payload.file_name,
                score       |-> Round4(result.score),
                chunk_index |-> result.payload.chunk_index,
                text        |-> result.payload.text]>>
             \o HitsUnfiltered(search_results, idx + 1)

\* lines 205-213: the results that clear the threshold, ranks kept
RECURSIVE Hits(_, _)
Hits(search_results, idx) ==
    IF idx > Len(search_results) THEN <<>>
    ELSE LET result == search_results[idx]
         IN  IF result.score >= HitThreshold
             THEN <<[rank        |-> idx,
                     file_name   |-> result.payload.file_name,
                     score       |-> Round4(result.score),
                     chunk_index |-> result.payload.chunk_index,
                     text        |-> result.payload.text]>>
                  \o Hits(search_results, idx + 1)
             ELSE Hits(search_results, idx + 1)

\* variant: context_used counts the search results, not the chunks kept
RagReplyCountsResults(question, search_results, before, fail) ==
    LET hits           == Hits(search_results, 1)
        context_chunks == [i \in 1..Len(hits) |-> hits[i].text]
        hit_info       == [i \in 1..Len(hits) |->
                             [rank        |-> hits[i].rank,
                              file_name   |-> hits[i].file_name,
                              score       |-> hits[i].score,
                              chunk_index |-> hits[i].chunk_index]]
        prompt         == IF context_chunks # <<>>
                          THEN RagPrompt(context_chunks, question)
                          ELSE BarePrompt(question)
    IN  IF "llm" \in fail
        THEN [raised |-> TRUE, e |-> "llm", calls |-> Append(before, LlmCall(231, prompt, FALSE))]
        ELSE [raised |-> FALSE,
              path |-> IF context_chunks # <<>> THEN "rag" ELSE "defensive",
              calls |-> Append(before, LlmCall(231, prompt, TRUE)),
              ret |-> [status       |-> "success",
                       answer       |-> Content(prompt),
                       hit_info     |-> hit_info,
                       context_used |-> Len(search_results),
                       mode         |-> IF context_chunks # <<>> THEN "rag" ELSE "general"]]

\* lines 201-241
RagReply(question, search_results, before, fail) ==
    LET hits           == Hits(search_results, 1)
        context_chunks == [i \in 1..Len(hits) |-> hits[i].text]
        hit_info       == [i \in 1..Len(hits) |->
                             [rank        |-> hits[i].rank,
                              file_name   |-> hits[i].file_name,
                              score       |-> hits[i].score,
                              chunk_index |-> hits[i].chunk_index]]
        prompt         == IF context_chunks # <<>>
                          THEN RagPrompt(context_chunks, question)
                          ELSE BarePrompt(question)
    IN  IF "llm" \in fail
        THEN [raised |-> TRUE, e |-> "llm", calls |-> Append(before, LlmCall(231, prompt, FALSE))]
        ELSE [raised |-> FALSE,
              path |-> IF context_chunks # <<>> THEN "rag" ELSE "defensive",
              calls |-> Append(before, LlmCall(231, prompt, TRUE)),
              ret |-> [status       |-> "success",
                       answer       |-> Content(prompt),
                       hit_info     |-> hit_info,
                       context_used |-> Len(context_chunks),
                       mode         |-> IF context_chunks # <<>> THEN "rag" ELSE "general"]]

\* variant: a best score equal to the threshold counts as irrelevant
NoRelevantResultAtThreshold(search_results) ==
    search_results = <<>> \/ search_results[1].score <= ModeThreshold

\* lines 188: not search_results or search_results[0].score < 0.2
NoRelevantResult(search_results) ==
    search_results = <<>> \/ search_results[1].score < ModeThreshold

\* variant: the empty-collection test never succeeds
NoDocumentsNever(count) == count < 0

\* line 158: if points_count == 0
NoDocuments(count) == count = 0

\* lines 145-241, the body of the outer try
QueryBody(ix, question, top_k, fail) ==
    LET counted == [fn |-> "get_collection", site |-> 150, arg |-> "",
                    ok |-> "get_collection" \notin fail]
        count   == IF "get_collection" \in fail THEN 0 ELSE points_count(ix)
        embed(ok)  == [fn |-> "embed_query", site |-> 172, arg |-> question, ok |-> ok]
        query_embedding == embed_query(question)
        search_results  == query_points(ix, query_embedding, top_k)
        search(ok) == [fn |-> "query_points", site |-> 175, arg |-> top_k, ok |-> ok,
                       out |-> IF ok THEN search_results ELSE <<>>]
    IN  IF NoDocuments(count)
        THEN GeneralReply(question, <<counted>>, fail, "empty", 161)
        ELSE IF "embed_query" \in fail
        THEN [raised |-> TRUE, e |-> "embed_query", calls |-> <<counted, embed(FALSE)>>]
        ELSE IF "query_points" \in fail
        THEN [raised |-> TRUE, e |-> "query_points",
              calls |-> <<counted, embed(TRUE), search(FALSE)>>]
        ELSE IF NoRelevantResult(search_results)
        THEN GeneralReply(question, <<counted, embed(TRUE), search(TRUE)>>, fail,
                          "irrelevant", 191)
        ELSE RagReply(question, search_results,
                      <<counted, embed(TRUE), search(TRUE)>>, fail)

\* variant: the fallback reply is tagged as general mode
QueryExceptGeneral(question, e, before, fail) ==
    IF "fallback" \in fail
    THEN [path |-> "error",
          calls |-> Append(before, LlmCall(250, BarePrompt(question), FALSE)),
          ret |-> [status   |-> "error",
                   message  |-> e,
                   answer   |-> Apology,
                   hit_info |-> <<>>]]
    ELSE [path |-> "fallback",
          calls |-> Append(before, LlmCall(250, BarePrompt(question), TRUE)),
          ret |-> [status       |-> "success",
                   answer       |-> Content(BarePrompt(question)),
                   hit_info     |-> <<>>,
                   context_used |-> 0,
                   mode         |-> "general"]]

\* variant: the handler reports the error without using the fallback reply
QueryExceptNoFallback(question, e, before, fail) ==
    [path |-> "error",
     calls |-> Append(before, LlmCall(250, BarePrompt(question), "fallback" \notin fail)),
     ret |-> [status   |-> "error",
              message  |-> e,
              answer   |-> Apology,
              hit_info |-> <<>>]]

\* lines 243-266, the handler of the outer try
QueryExcept(question, e, before, fail) ==
    IF "fallback" \in fail
    THEN [path |-> "error",
          calls |-> Append(before, LlmCall(250, BarePrompt(question), FALSE)),
          ret |-> [status   |-> "error",
                   message  |-> e,
                   answer   |-> Apology,
                   hit_info |-> <<>>]]
    ELSE [path |-> "fallback",
          calls |-> Append(before, LlmCall(250, BarePrompt(question), TRUE)),
          ret |-> [status       |-> "success",
                   answer       |-> Content(BarePrompt(question)),
                   hit_info     |-> <<>>,
                   context_used |-> 0,
                   mode         |-> "fallback"]]

\* variant: no fallback call when it was the language model that raised
queryGivesUpOnLlm(ix, question, top_k, fail) ==
    LET b == QueryBody(ix, question, top_k, fail)
    IN  IF b.raised /\ b.e = "llm"
        THEN [path |-> "error", calls |-> b.calls,
              ret |-> [status |-> "error", message |-> b.e,
                       answer |-> Apology, hit_info |-> <<>>]]
        ELSE IF b.raised
        THEN QueryExcept(question, b.e, b.calls, fail)
        ELSE [path |-> b.path, calls |-> b.calls, ret |-> b.ret]

query(ix, question, top_k, fail) ==
    LET b == QueryBody(ix, question, top_k, fail)
    IN  IF b.raised
        THEN QueryExcept(question, b.e, b.calls, fail)
        ELSE [path |-> b.path, calls |-> b.calls, ret |-> b.ret]

-----------------------------------------------------------------------------
(* The state machine: one action per public operation of the engine, which *)
(* serves one call at a time, and one for the return to the caller         *)

\* the engine between two calls
Idle == [name |-> "idle"]

\* rag_engine = None, rag_engine_instance = None
NoEngine == 0

\* no handler is running on the event loop
Free == "free"

\* a handler that is not serving a request
NoTask ==
    [endpoint |-> "none", pc |-> "done", engine |-> NoEngine, error |-> "",
     result |-> [status |-> "none"],
     response |-> [status_code |-> 0, content |-> [status |-> "none"]]]

\* the engine has been built and no request is being handled
EngineBuilt ==
    /\ task = [t \in Handlers |-> NoTask]
    /\ rag_engine = 1
    /\ rag_engine_instance = 1
    /\ loop = Free
    /\ constructed = 1

Init ==
    /\ index = <<>>
    /\ now = 0
    /\ op = Idle
    /\ ret = [status |-> "none"]
    /\ calls = <<>>
    /\ path = "idle"
    /\ atCall = <<>>
    /\ EngineBuilt

\* the clock read by datetime.now(): every upload happens at a later instant
\* than the one before, until the clock reaches MaxClock and stays there
Later(clock) == IF clock < MaxClock THEN clock + 1 ELSE clock

\* upsert is reached only when every embed_query call has returned
AddDocument ==
    /\ op = Idle
    /\ \E file_name \in FileNames, content \in Contents :
         \E embedFailAt \in 0..Len(content) :
           \E upsertFails \in (IF embedFailAt = 0 THEN BOOLEAN ELSE {FALSE}) :
             LET r == add_document(index, now, file_name, content, embedFailAt, upsertFails)
             IN  /\ index' = r.index
                 /\ op' = [name |-> "add_document", file_name |-> file_name,
                           content |-> content]
                 /\ ret' = r.ret
                 /\ calls' = r.calls
                 /\ path' = r.path
                 /\ now' = Later(now)
                 /\ atCall' = index

DeleteDocument ==
    /\ op = Idle
    /\ \E doc_id \in DocIds, scrollFails \in BOOLEAN :
         \E deleteFails \in (IF scrollFails THEN {FALSE} ELSE BOOLEAN) :
           LET r == delete_document(index, doc_id, scrollFails, deleteFails)
           IN  /\ index' = r.index
               /\ op' = [name |-> "delete_document", doc_id |-> doc_id]
               /\ ret' = r.ret
               /\ calls' = r.calls
               /\ path' = r.path
               /\ atCall' = index
               /\ UNCHANGED now

GetAllDocuments ==
    /\ op = Idle
    /\ \E scrollFails \in BOOLEAN :
         LET r == get_all_documents(index, scrollFails)
         IN  /\ index' = r.index
             /\ op' = [name |-> "get_all_documents"]
             /\ ret' = r.ret
             /\ calls' = r.calls
             /\ path' = r.path
             /\ atCall' = index
             /\ UNCHANGED now

Query ==
    /\ op = Idle
    /\ \E question \in Questions, top_k \in TopKs, fail \in QueryFailures :
         LET r == query(index, question, top_k, fail)
         IN  /\ op' = [name |-> "query", question |-> question, top_k |-> top_k]
             /\ ret' = r.ret
             /\ calls' = r.calls
             /\ path' = r.path
             /\ atCall' = index
             /\ UNCHANGED <<index, now>>

\* the call hands its result to the caller and the engine waits for the next
\* call; what stays behind is the index and the clock
Return ==
    /\ op # Idle
    /\ atCall' = index
    /\ op' = Idle
    /\ ret' = [status |-> "none"]
    /\ calls' = <<>>
    /\ path' = "idle"
    /\ UNCHANGED <<index, now>>

Next ==
    \/ AddDocument /\ UNCHANGED server
    \/ DeleteDocument /\ UNCHANGED server
    \/ GetAllDocuments /\ UNCHANGED server
    \/ Query /\ UNCHANGED server
    \/ Return /\ UNCHANGED server

Spec == Init /\ [][Next]_vars

-----------------------------------------------------------------------------
(* The request handlers of src/main.py. Every handler is an `async def`     *)
(* coroutine on the one event loop of uvicorn.run: it runs until it reaches *)
(* an await or returns, and get_rag() and the engine methods are plain      *)
(* calls, made without an await.                                            *)

Endpoints == {"upload_file", "get_documents", "delete_document", "query_rag"}

\* a request that has arrived and whose handler has not started
NewTask(endpoint) == [NoTask EXCEPT !.endpoint = endpoint, !.pc = "start"]

\* no engine has been built; each handler has a request of some endpoint
ServerInit ==
    /\ index = <<>>
    /\ now = 0
    /\ op = Idle
    /\ ret = [status |-> "none"]
    /\ calls = <<>>
    /\ path = "idle"
    /\ atCall = <<>>
    /\ task \in [Handlers -> {NewTask(e) : e \in Endpoints}]
    /\ rag_engine = NoEngine
    /\ rag_engine_instance = NoEngine
    /\ loop = Free
    /\ constructed = 0

engine == <<index, now, op, ret, calls, path, atCall>>

\* variant: the handlers run on threads of their own
CanRunThreaded(t) == TRUE

\* a handler takes a step only when no other handler is running on the loop
CanRun(t) == loop \in {Free, t}

\* JSONResponse(content=...), status_code 200 by default
JSONResponse(content) == [status_code |-> 200, content |-> content]

\* JSONResponse(status_code=500, content={"status": "error", "message": str(e)})
ErrorResponse(e) ==
    [status_code |-> 500, content |-> [status |-> "error", message |-> e]]

\* the except block of the endpoint awaits a broadcast before it answers
ExceptAwaits(endpoint) == endpoint \in {"upload_file", "query_rag"}

\* the handler awaits a broadcast between the engine call and its return
AwaitsAfterCall(endpoint, result) ==
    \/ endpoint = "query_rag"
    \/ endpoint \in {"upload_file", "delete_document"} /\ result.status = "success"

\* the handler runs up to get_rag(): upload_file reads the file and extracts
\* its text (lines 72-118, with awaits, and a ValueError when that fails),
\* query_rag awaits a broadcast (line 182), the other two await nothing
Begin(t) ==
    /\ task[t].pc = "start"
    /\ CanRun(t)
    /\ \E textFails \in (IF task[t].endpoint = "upload_file" THEN BOOLEAN ELSE {FALSE}) :
         /\ task' = [task EXCEPT ![t].pc = IF textFails THEN "except" ELSE "get_rag",
                                 ![t].error = IF textFails THEN "ValueError" ELSE ""]
         /\ loop' = IF task[t].endpoint \in {"upload_file", "query_rag"} THEN Free ELSE t
    /\ UNCHANGED <<engine, rag_engine, rag_engine_instance, constructed>>

\* get_rag, line 59: if rag_engine is None
GetRag(t) ==
    /\ task[t].pc = "get_rag"
    /\ CanRun(t)
    /\ task' = IF rag_engine = NoEngine
               THEN [task EXCEPT ![t].pc = "get_rag_engine"]
               ELSE [task EXCEPT ![t].pc = "call", ![t].engine = rag_engine]
    /\ loop' = t
    /\ UNCHANGED <<engine, rag_engine, rag_engine_instance, constructed>>

\* get_rag_engine, line 274: if rag_engine_instance is None; when it is set,
\* lines 276 and 61-62 hand it to get_rag and to the handler
GetRagEngine(t) ==
    /\ task[t].pc = "get_rag_engine"
    /\ CanRun(t)
    /\ IF rag_engine_instance = NoEngine
       THEN /\ task' = [task EXCEPT ![t].pc = "construct"]
            /\ UNCHANGED rag_engine
       ELSE /\ task' = [task EXCEPT ![t].pc = "call", ![t].engine = rag_engine_instance]
            /\ rag_engine' = rag_engine_instance
    /\ loop' = t
    /\ UNCHANGED <<engine, rag_engine_instance, constructed>>

\* line 275: rag_engine_instance = RAGEngine(); the constructor raises when a
\* client cannot be set up, and the handler's except block takes over
Construct(t) ==
    /\ task[t].pc = "construct"
    /\ CanRun(t)
    /\ \E initFails \in BOOLEAN :
         IF initFails
         THEN /\ task' = [task EXCEPT ![t].pc = "except", ![t].error = "RAGEngine"]
              /\ loop' = IF ExceptAwaits(task[t].endpoint) THEN Free ELSE t
              /\ UNCHANGED <<rag_engine, rag_engine_instance, constructed>>
         ELSE /\ constructed' = constructed + 1
              /\ rag_engine_instance' = constructed + 1
              /\ rag_engine' = constructed + 1
              /\ task' = [task EXCEPT ![t].pc = "call", ![t].engine = constructed + 1]
              /\ loop' = t
    /\ UNCHANGED engine

\* the handler calls the engine method of its endpoint; query_rag passes the
\* question only, so top_k is the default
Call(t) ==
    /\ task[t].pc = "call"
    /\ CanRun(t)
    /\ \/ task[t].endpoint = "upload_file" /\ AddDocument
       \/ task[t].endpoint = "get_documents" /\ GetAllDocuments
       \/ task[t].endpoint = "delete_document" /\ DeleteDocument
       \/ task[t].endpoint = "query_rag" /\ Query /\ op'.top_k = DefaultTopK
    /\ task' = [task EXCEPT ![t].pc = "in_call"]
    /\ loop' = t
    /\ UNCHANGED <<rag_engine, rag_engine_instance, constructed>>

\* the engine method returns its result to the handler
Returned(t) ==
    /\ task[t].pc = "in_call"
    /\ CanRun(t)
    /\ Return
    /\ task' = [task EXCEPT ![t].pc = "reply", ![t].result = ret]
    /\ loop' = IF /\ task[t].endpoint # "get_documents"
                  /\ AwaitsAfterCall(task[t].endpoint, ret)
               THEN Free ELSE t
    /\ UNCHANGED <<rag_engine, rag_engine_instance, constructed>>

\* return JSONResponse(content=result), lines 130, 149, 170 and 197
Reply(t) ==
    /\ task[t].pc = "reply"
    /\ CanRun(t)
    /\ task' = [task EXCEPT ![t].pc = "done",
                            ![t].response = JSONResponse(task[t].result)]
    /\ loop' = Free
    /\ UNCHANGED <<engine, rag_engine, rag_engine_instance, constructed>>

\* the except block of the handler: a response with status_code 500
Fail(t) ==
    /\ task[t].pc = "except"
    /\ CanRun(t)
    /\ task' = [task EXCEPT ![t].pc = "done",
                            ![t].response = ErrorResponse(task[t].error)]
    /\ loop' = Free
    /\ UNCHANGED <<engine, rag_engine, rag_engine_instance, constructed>>

Step(t) ==
    \/ Begin(t)
    \/ GetRag(t)
    \/ GetRagEngine(t)
    \/ Construct(t)
    \/ Call(t)
    \/ Returned(t)
    \/ Reply(t)
    \/ Fail(t)

ServerNext == \E t \in Handlers : Step(t)

SpecServer == ServerInit /\ [][ServerNext]_vars

TypeOK ==
    /\ now \in 0..MaxClock
    /\ op = Idle => atCall = index
    /\ \A id \in DOMAIN index :
          /\ index[id].payload.file_name \in FileNames
          /\ index[id].payload.text \in Texts
          /\ index[id].payload.chunk_index \in 0..(MaxChunks - 1)
          /\ id = PointId(index[id].payload.doc_id, index[id].payload.chunk_index)

-----------------------------------------------------------------------------
(* Observations on the last call *)

DocPoints(ix, doc_id) == {id \in DOMAIN ix : ix[id].payload.doc_id = doc_id}

AllOk == \A i \in 1..Len(calls) : calls[i].ok

Called(fn) == \E i \in 1..Len(calls) : calls[i].fn = fn

\* the results the nearest-neighbour search returned to the last query
SearchOut ==
    IF \E i \in 1..Len(calls) : calls[i].fn = "query_points" /\ calls[i].ok
    THEN calls[CHOOSE i \in 1..Len(calls) : calls[i].fn = "query_points"].out
    ELSE <<>>

Descending(results) ==
    \A i \in 1..(Len(results) - 1) : results[i].score >= results[i + 1].score

\* the listing a scan that does not fail returns, as (doc_id, chunks_count) pairs
ChunkCounts(ix) ==
    LET listed == get_all_documents(ix, FALSE).ret
    IN  {<<listed[i].doc_id, listed[i].chunks_count>> : i \in 1..Len(listed)}

\* a call of the primary path raised: any call but the fallback call of line 250
PrimaryRaised == \E i \in 1..Len(calls) : calls[i].site # 250 /\ ~calls[i].ok

\* a call of the primary path other than the collection check raised
EscapingRaise == \E i \in 1..Len(calls) : calls[i].site \notin {150, 250} /\ ~calls[i].ok

FallbackRaised == \E i \in 1..Len(calls) : calls[i].site = 250 /\ ~calls[i].ok

LastCall == calls[Len(calls)]

\* the index stores every chunk of content under file_name
Stored(ix, file_name, content) ==
    \A i \in 1..Len(content) :
        \E id \in DOMAIN ix :
            /\ ix[id].payload.file_name = file_name
            /\ ix[id].payload.chunk_index = i - 1
            /\ ix[id].payload.text = content[i]

GeneralResult(question) ==
    [status       |-> "success",
     answer       |-> Content(BarePrompt(question)),
     hit_info     |-> <<>>,
     context_used |-> 0,
     mode         |-> "general"]

-----------------------------------------------------------------------------
(* Claims *)

\* C1: after delete_document(doc_id) has returned status success, no point of
\* the index carries that doc_id, so that get_all_documents lists no entry with
\* it and no search of a later query returns one of its chunks.
C1_DeletionCompleteness ==
    (op.name = "delete_document" /\ ret.status = "success") =>
        /\ DocPoints(index, op.doc_id) = {}
        /\ \A pair \in ChunkCounts(index) : pair[1] # op.doc_id
        /\ \A q \in Questions, k \in TopKs :
              LET found == query_points(index, embed_query(q), k)
              IN  \A i \in 1..Len(found) : found[i].payload.doc_id # op.doc_id

\* C2: a query on a non-empty collection whose collection check, embedding,
\* search and model call all succeed, the search results in descending order,
\* returns mode general when the best score is below 0.2 and mode rag when it
\* is at least 0.2; the branch for an empty filtered context is never taken.
C2_ThresholdMonotonicity ==
    /\ path # "defensive"
    /\ (/\ op.name = "query"
        /\ AllOk
        /\ points_count(index) > 0
        /\ SearchOut # <<>>
        /\ Descending(SearchOut)) =>
            /\ SearchOut[1].score < ModeThreshold => ret.mode = "general"
            /\ SearchOut[1].score >= ModeThreshold => ret.mode = "rag"

\* a rag answer in which a later search result fell below the threshold
C2_Witness ==
    /\ op.name = "query"
    /\ AllOk
    /\ path = "rag"
    /\ SearchOut[1].score = ModeThreshold
    /\ Len(SearchOut) > ret.context_used

\* C3 as stated: whenever the index holds zero points, query sends the question
\* verbatim to the language model and returns mode general with hit_info=[] and
\* context_used=0, invoking neither the embedder nor the search.
C3_Original ==
    (op.name = "query" /\ points_count(index) = 0) =>
        /\ ~Called("embed_query")
        /\ ~Called("query_points")
        /\ calls[2].fn = "llm" /\ calls[2].arg = BarePrompt(op.question)
        /\ ret = GeneralResult(op.question)

\* C3 amended: whenever the index holds zero points, query invokes neither the
\* embedder nor the search and sends the question verbatim to the language
\* model; when that call succeeds the result is mode general with hit_info=[]
\* and context_used=0, and when it raises the query goes to its fallback
\* handler (mode fallback, or status error).
C3_EmptyShortCircuit ==
    (op.name = "query" /\ points_count(index) = 0) =>
        /\ ~Called("embed_query")
        /\ ~Called("query_points")
        /\ calls[2].fn = "llm" /\ calls[2].arg = BarePrompt(op.question)
        /\ calls[2].ok => ret = GeneralResult(op.question)
        /\ ~calls[2].ok => path \in {"fallback", "error"}

C3_Witness ==
    /\ op.name = "query"
    /\ points_count(index) = 0
    /\ calls[1].ok
    /\ path = "empty"

\* C4 as stated: if any call of the primary query path raises (collection
\* check, embedding, search, primary model call), the bare question is sent to
\* the language model and, that call succeeding, the result has status success,
\* mode fallback, hit_info=[] and context_used=0.
C4_Original ==
    (op.name = "query" /\ PrimaryRaised /\ LastCall.ok) =>
        /\ LastCall.fn = "llm" /\ LastCall.arg = BarePrompt(op.question)
        /\ ret.status = "success"
        /\ ret.mode = "fallback"
        /\ ret.hit_info = <<>>
        /\ ret.context_used = 0

\* C4 amended: if the embedding, the search or the primary model call raises,
\* the bare question is sent to the language model and, that fallback call
\* succeeding, the result has status success, mode fallback, hit_info=[] and
\* context_used=0; a raise of the collection check alone is handled as an empty
\* collection: the bare question is sent and the result is mode general.
C4_QueryFallback ==
    op.name = "query" =>
        /\ (EscapingRaise /\ LastCall.ok) =>
              /\ LastCall.site = 250
              /\ LastCall.fn = "llm" /\ LastCall.arg = BarePrompt(op.question)
              /\ ret.status = "success"
              /\ ret.mode = "fallback"
              /\ ret.hit_info = <<>>
              /\ ret.context_used = 0
        /\ (PrimaryRaised /\ ~EscapingRaise) =>
              /\ ~Called("embed_query")
              /\ ~Called("query_points")
              /\ LastCall.site = 161
              /\ LastCall.fn = "llm" /\ LastCall.arg = BarePrompt(op.question)
              /\ ret = GeneralResult(op.question)

\* the embedder raised on the question and the fallback call answered
C4_Witness ==
    /\ op.name = "query"
    /\ Len(calls) = 3
    /\ calls[2].fn = "embed_query" /\ ~calls[2].ok
    /\ LastCall.ok
    /\ ret.mode = "fallback"

\* C5: query returns status error exactly when a call of the primary path
\* raised and the fallback model call raised too; the error result carries a
\* message, the apology as answer and hit_info=[]; otherwise status is success.
C5_ErrorOnlyOnDoubleFailure ==
    op.name = "query" =>
        /\ ret.status \in {"success", "error"}
        /\ ret.status = "error" <=> (PrimaryRaised /\ FallbackRaised)
        /\ ret.status = "error" =>
              /\ DOMAIN ret = {"status", "message", "answer", "hit_info"}
              /\ ret.answer = Apology
              /\ ret.hit_info = <<>>

\* the search raised, and then the fallback call raised
C5_Witness ==
    /\ op.name = "query"
    /\ ret.status = "error"
    /\ Len(calls) = 4
    /\ calls[3].fn = "query_points" /\ ~calls[3].ok
    /\ ~calls[4].ok

\* C6: add_document, delete_document and query always return a result tagged
\* success or error, whichever external call raised (for add_document and
\* delete_document the tag is error exactly when one did), and
\* get_all_documents returns the empty list when its scan raised.
C6_NoRaisePastBoundary ==
    /\ op.name \in {"add_document", "delete_document", "query"} =>
          ret.status \in {"success", "error"}
    /\ op.name \in {"add_document", "delete_document"} =>
          (ret.status = "error" <=> ~AllOk)
    /\ (op.name = "get_all_documents" /\ ~AllOk) => ret = <<>>

\* the embedder raised on the second chunk of an upload
C6_Witness ==
    /\ op.name = "add_document"
    /\ Len(calls) = 2
    /\ calls[1].ok /\ ~calls[2].ok
    /\ ret.status = "error"

\* C7: a delete_document whose index calls succeed returns status success with
\* deleted_points equal to the number of points that carried the doc_id; when
\* no point carried it, that is 0, no delete is issued and the index is unchanged.
C7_DeleteCounts ==
    [][(op'.name = "delete_document" /\ \A i \in 1..Len(calls') : calls'[i].ok) =>
          LET n == Cardinality(DocPoints(index, op'.doc_id))
          IN  /\ ret'.status = "success"
              /\ ret'.deleted_points = n
              /\ n = 0 => /\ \A i \in 1..Len(calls') : calls'[i].fn # "delete"
                          /\ index' = index]_vars

\* C8 as stated: a stored point keeps its payload until it is removed, and it is
\* removed only by delete_document called with its doc_id.
C8_Original ==
    [][\A id \in DOMAIN index :
          \/ id \in DOMAIN index' /\ index'[id].payload = index[id].payload
          \/ /\ id \notin DOMAIN index'
             /\ op'.name = "delete_document"
             /\ op'.doc_id = index[id].payload.doc_id]_vars

\* C8 amended: a stored point keeps its payload until it is removed or until a
\* successful add_document with its file_name writes the same chunk_index again,
\* which replaces its text and uploaded_at and keeps its doc_id, file_name and
\* chunk_index; a point is removed only by delete_document called with its
\* doc_id; no other operation changes or removes a point.
C8_Lifecycle ==
    [][\A id \in DOMAIN index :
          \/ id \in DOMAIN index' /\ index'[id] = index[id]
          \/ /\ id \notin DOMAIN index'
             /\ op'.name = "delete_document"
             /\ op'.doc_id = index[id].payload.doc_id
          \/ /\ id \in DOMAIN index'
             /\ op'.name = "add_document"
             /\ ret'.status = "success"
             /\ op'.file_name = index[id].payload.file_name
             /\ index[id].payload.chunk_index < Len(op'.content)
             /\ index'[id].payload =
                   [index[id].payload EXCEPT
                       !.text = op'.content[index[id].payload.chunk_index + 1],
                       !.uploaded_at = now]]_vars

\* an upload wrote chunk 0 of a file again right after an upload of that file
C8_Witness ==
    /\ op.name = "add_document"
    /\ ret.status = "success"
    /\ \E id \in DOMAIN atCall :
          /\ atCall[id].payload.file_name = op.file_name
          /\ atCall[id].payload.chunk_index = 0
          /\ index[id].payload.text # atCall[id].payload.text
    /\ \E id \in DOMAIN index : index[id].payload.file_name # op.file_name

\* C9: point_id is a function of (doc_id, chunk_index) and doc_id of file_name,
\* so a successful add_document of a file_name and content that the index
\* already stores, chunk for chunk as an earlier add_document of them left it,
\* leaves the set of point ids and the chunks_count values of
\* get_all_documents as they were.
C9_IdempotentReingestion ==
    /\ [](\A id \in DOMAIN index :
            /\ index[id].payload.doc_id = DocId(index[id].payload.file_name)
            /\ \A other \in DOMAIN index :
                  (/\ index[other].payload.doc_id = index[id].payload.doc_id
                   /\ index[other].payload.chunk_index = index[id].payload.chunk_index)
                  => other = id)
    /\ [][(/\ op'.name = "add_document"
           /\ ret'.status = "success"
           /\ Stored(index, op'.file_name, op'.content)) =>
              /\ DOMAIN index' = DOMAIN index
              /\ ChunkCounts(index') = ChunkCounts(index)]_vars

\* the same two-chunk document was uploaded twice in a row
C9_Witness ==
    /\ op.name = "add_document"
    /\ ret.status = "success"
    /\ Stored(atCall, op.file_name, op.content)
    /\ Len(op.content) = 2

\* C10: a get_all_documents whose scan succeeds returns exactly one entry per
\* doc_id present among the index points, with chunks_count the number of
\* points carrying that doc_id, so that the counts sum to the number of points.
C10_ListingCorrect ==
    (op.name = "get_all_documents" /\ AllOk) =>
        /\ \A id \in DOMAIN index :
              Cardinality({i \in 1..Len(ret) :
                              ret[i].doc_id = index[id].payload.doc_id}) = 1
        /\ \A i \in 1..Len(ret) :
              ret[i].chunks_count = Cardinality(DocPoints(index, ret[i].doc_id))

\* the positions of the search results that clear the threshold, in order
KeptRanks(results) ==
    SortedIds({i \in 1..Len(results) : results[i].score >= HitThreshold})

\* C14: in rag mode the search was asked for top_k results, and hit_info lists
\* exactly the results with score at least 0.2, in search order, each with its
\* 1-based position in the search results as rank (and its file_name, rounded
\* score and chunk_index); with results in descending order the ranks are
\* 1..context_used; the context sent to the model is the texts of the same
\* results in the same order.
C14_HitInfoRanks ==
    (op.name = "query" /\ ret.status = "success" /\ ret.mode = "rag") =>
        LET kept == KeptRanks(SearchOut)
        IN  /\ SearchOut = query_points(index, embed_query(op.question), op.top_k)
            /\ Len(SearchOut) <= op.top_k
            /\ Len(ret.hit_info) = Len(kept)
            /\ \A j \in 1..Len(kept) :
                  ret.hit_info[j] =
                     [rank        |-> kept[j],
                      file_name   |-> SearchOut[kept[j]].payload.file_name,
                      score       |-> Round4(SearchOut[kept[j]].score),
                      chunk_index |-> SearchOut[kept[j]].payload.chunk_index]
            /\ Descending(SearchOut) =>
                  /\ ret.context_used = Len(kept)
                  /\ \A j \in 1..Len(kept) : ret.hit_info[j].rank = j
            /\ LastCall.arg = RagPrompt([j \in 1..Len(kept) |-> SearchOut[kept[j]].payload.text],
                                        op.question)

\* two results were kept and a third, below the threshold, was left out
C14_Witness ==
    /\ op.name = "query"
    /\ ret.status = "success"
    /\ ret.mode = "rag"
    /\ Len(ret.hit_info) = 2
    /\ Len(SearchOut) >= 3

\* C15: a query result with mode general or fallback has hit_info=[] and
\* context_used=0; one with mode rag has context_used = length of hit_info, at
\* least 1; one with status success has mode general, rag or fallback.
C15_ResultShape ==
    op.name = "query" =>
        /\ ret.status = "success" => ret.mode \in {"general", "rag", "fallback"}
        /\ ("mode" \in DOMAIN ret /\ ret.mode \in {"general", "fallback"}) =>
              /\ ret.hit_info = <<>>
              /\ ret.context_used = 0
        /\ ("mode" \in DOMAIN ret /\ ret.mode = "rag") =>
              /\ ret.context_used = Len(ret.hit_info)
              /\ ret.context_used >= 1

\* a rag answer built on one chunk while the search returned more
C15_Witness ==
    /\ op.name = "query"
    /\ path = "rag"
    /\ ret.context_used = 1
    /\ Len(SearchOut) > 1

\* C16: a successful add_document of content that splits into n chunks embeds
\* each chunk once, in order, and then issues one upsert of n points with
\* chunk_index 0..n-1 in chunk order, all with the doc_id of the file_name and
\* that file_name; the index holds those points afterwards and is otherwise as
\* before; the result is status success with that doc_id and chunks_count = n.
C16_AddWritesAllChunks ==
    (op.name = "add_document" /\ ret.status = "success") =>
        LET n      == Len(op.content)
            doc_id == DocId(op.file_name)
        IN  /\ ret = [status |-> "success", doc_id |-> doc_id, chunks_count |-> n]
            /\ Len(calls) = n + 1
            /\ \A i \in 1..n :
                  /\ calls[i].fn = "embed_query"
                  /\ calls[i].ok
                  /\ calls[i].arg = op.content[i]
            /\ calls[n + 1].fn = "upsert"
            /\ calls[n + 1].ok
            /\ Len(calls[n + 1].arg) = n
            /\ \A i \in 1..n :
                  LET p == calls[n + 1].arg[i]
                  IN  /\ p.payload.doc_id = doc_id
                      /\ p.payload.file_name = op.file_name
                      /\ p.payload.chunk_index = i - 1
                      /\ p.payload.text = op.content[i]
                      /\ p.id \in DOMAIN index
                      /\ index[p.id].payload = p.payload
            /\ LET written == {calls[n + 1].arg[i].id : i \in 1..n}
               IN  /\ Cardinality(written) = n
                   /\ DOMAIN index = DOMAIN atCall \cup written
                   /\ \A id \in DOMAIN atCall \ written : index[id] = atCall[id]

\* a three-chunk upload into an index that held points already
C16_Witness ==
    /\ op.name = "add_document"
    /\ ret.status = "success"
    /\ Len(op.content) = 3
    /\ atCall # <<>>
    /\ DOMAIN index # DOMAIN atCall

\* C17: a query in which no call raises invokes the language model exactly
\* once, any query at most twice; the fallback call (line 250) is made at most
\* once, as the last call, exactly when a call of the primary path other than
\* the collection check raised, the primary language-model call included, and
\* its prompt is the bare question.
C17_LlmInvocations ==
    op.name = "query" =>
        LET llms      == {i \in 1..Len(calls) : calls[i].fn = "llm"}
            fallbacks == {i \in 1..Len(calls) : calls[i].site = 250}
        IN  /\ AllOk => Cardinality(llms) = 1
            /\ Cardinality(llms) <= 2
            /\ Cardinality(fallbacks) <= 1
            /\ fallbacks # {} <=> EscapingRaise
            /\ \A i \in fallbacks :
                  /\ i = Len(calls)
                  /\ calls[i].fn = "llm"
                  /\ calls[i].arg = BarePrompt(op.question)
            /\ (\E i \in llms : calls[i].site # 250 /\ ~calls[i].ok) =>
                  /\ fallbacks # {}
                  /\ Cardinality(llms) = 2

\* the model call on the RAG prompt raised and the fallback call followed
C17_Witness ==
    /\ op.name = "query"
    /\ \E i \in 1..Len(calls) : calls[i].site = 231 /\ ~calls[i].ok
    /\ LastCall.site = 250
    /\ LastCall.ok

\* C18: when the embedder raises on a chunk of the document, add_document
\* returns status error, has issued no upsert, and leaves the index as it was.
C18_AllOrNothing ==
    (/\ op.name = "add_document"
     /\ \E i \in 1..Len(calls) : calls[i].fn = "embed_query" /\ ~calls[i].ok) =>
        /\ ret.status = "error"
        /\ ~Called("upsert")
        /\ index = atCall

\* the embedder raised on the middle chunk of a three-chunk document
C18_Witness ==
    /\ op.name = "add_document"
    /\ Len(op.content) = 3
    /\ Len(calls) = 2
    /\ ~calls[2].ok
    /\ atCall # <<>>

\* C19: query and get_all_documents issue no upsert and no delete and leave
\* the index as it was, on every path.
C19_ReadOnly ==
    op.name \in {"query", "get_all_documents"} =>
        /\ index = atCall
        /\ \A i \in 1..Len(calls) : calls[i].fn \notin {"upsert", "delete"}

\* a listing over more points than its scan returns
C19_Witness ==
    /\ op.name = "get_all_documents"
    /\ AllOk
    /\ points_count(index) > ListScrollLimit

\* the chunk indexes stored under doc_id
ChunkIndexes(ix, doc_id) == {ix[id].payload.chunk_index : id \in DocPoints(ix, doc_id)}

\* C20: after a successful add_document of n2 chunks under a file_name whose
\* points were those of an upload of n1 chunks (chunk_index 0..n1-1, n1 >= 1,
\* n2 >= 1), get_all_documents has exactly one entry for the doc_id, with
\* chunks_count = max(n1, n2); the points with chunk_index < n2 carry the new
\* text and those with chunk_index in n2..n1-1 the text they had.
C20_SameNameMerge ==
    (/\ op.name = "add_document"
     /\ ret.status = "success"
     /\ Len(op.content) >= 1
     /\ DocPoints(atCall, DocId(op.file_name)) # {}
     /\ ChunkIndexes(atCall, DocId(op.file_name)) =
           0..(Cardinality(DocPoints(atCall, DocId(op.file_name))) - 1)) =>
        LET doc_id == DocId(op.file_name)
            n1     == Cardinality(DocPoints(atCall, doc_id))
            n2     == Len(op.content)
            listed == get_all_documents(index, FALSE).ret
            mine   == {i \in 1..Len(listed) : listed[i].doc_id = doc_id}
        IN  /\ Cardinality(mine) = 1
            /\ \A i \in mine : listed[i].chunks_count = (IF n1 > n2 THEN n1 ELSE n2)
            /\ \A id \in DocPoints(index, doc_id) :
                  LET k == index[id].payload.chunk_index
                  IN  /\ k < n2 => index[id].payload.text = op.content[k + 1]
                      /\ k >= n2 => /\ id \in DOMAIN atCall
                                    /\ index[id].payload.text = atCall[id].payload.text

\* C11: under every interleaving of the request handlers RAGEngine() succeeds
\* at most once, and only when a handler needs the engine while none is set;
\* both globals then hold that one instance, every handler that has obtained
\* an engine holds it too, and no two handlers are between the test for an
\* unset instance and its construction at the same time.
C11_LazySingleton ==
    /\ constructed <= 1
    /\ constructed = 0 => rag_engine = NoEngine /\ rag_engine_instance = NoEngine
    /\ constructed = 1 => rag_engine = 1 /\ rag_engine_instance = 1
    /\ \A t \in Handlers :
          /\ task[t].engine \in {NoEngine, rag_engine}
          /\ task[t].pc \in {"call", "in_call", "reply"} => task[t].engine # NoEngine
    /\ \A t, u \in Handlers :
          (/\ task[t].pc \in {"get_rag_engine", "construct"}
           /\ task[u].pc \in {"get_rag_engine", "construct"}) => t = u

\* both handlers have answered from the same engine, which one of them built
C11_Witness ==
    /\ constructed = 1
    /\ \A t \in Handlers :
          /\ task[t].pc = "done"
          /\ task[t].engine = 1
          /\ task[t].response.status_code = 200

\* C12: while the engine call of one handler is in progress, its external
\* calls made, every other handler with a request to serve can take a step.
C12_NonBlocking ==
    \A t, u \in Handlers :
        (/\ t # u
         /\ task[t].pc = "in_call"
         /\ calls # <<>>
         /\ task[u].pc \notin {"done"}) => ENABLED Step(u)

\* C13: when the engine returns a result with status error to upload_file,
\* delete_document or query_rag, the response is not a success response, and
\* when it returns status success the response is 200 with that result.
C13_TransportMapping ==
    \A t \in Handlers :
        (/\ task[t].pc = "done"
         /\ task[t].endpoint \in {"upload_file", "delete_document", "query_rag"}) =>
            /\ task[t].result.status = "error" => task[t].response.status_code >= 400
            /\ task[t].result.status = "success" =>
                  task[t].response = JSONResponse(task[t].result)

====
